---- MODULE Spec2Model ----
(***************************************************************************)
(* Model of the smartharvester tracker: the durable plantings and          *)
(* notifications tables (DynamoDB), the signed-cookie browser session      *)
(* (user_plantings list, notifications_<user_id> lists, id_token), and the *)
(* request handlers of tracker/views.py with the helpers of                *)
(* tracker/dynamodb_helper.py and tracker/plan_calculator.py.              *)
(*                                                                         *)
(* Every handler is one atomic action.  Each call to the durable store may *)
(* fail; the outcome of each call is an input of the action.               *)
(***************************************************************************)
EXTENDS Integers, Sequences, FiniteSets, TLC

\* ------------------------------------------------------------------------
\* Bounds of the model
\* ------------------------------------------------------------------------
\* number of planting ids (uuid4 values) that save_planting may generate
MaxPlantings == 2
\* number of notification ids (uuid4 values) that save_notification may generate
MaxNotifs == 4
\* number of seconds the wall clock (time.time()) may advance
MaxClock == 1
\* the day number of date.today()
Today == 100
\* number of items that the users table may hold
MaxUsers == 4
\* BATCH_SIZE of the environment of the digest (os.environ, "25" when unset)
BATCH_SIZE == 2
\* number of notifications that may be saved to the session list of a user
MaxSessionSaves == 103

\* ------------------------------------------------------------------------
\* Identities.  A verified id_token carries sub (user_id) and a username.
\* ------------------------------------------------------------------------
Users == {"u1", "u2"}

usernameOf(u) == IF u = "u1" THEN "alice" ELSE IF u = "u2" THEN "bob" ELSE ""

\* ------------------------------------------------------------------------
\* Python values.  A date is carried either as an ISO-8601 string or as a
\* datetime.date object; "none" is a missing attribute / None, "bad" a
\* string that date.fromisoformat rejects.
\* ------------------------------------------------------------------------
NoDate == [t |-> "none", v |-> 0]

IsoStr(n) == [t |-> "str", v |-> n]

DateObj(n) == [t |-> "date", v |-> n]

\* date.fromisoformat on a parseable string
fromisoformat(s) == [t |-> "date", v |-> s.v]

\* date.isoformat()
isoformat(d) == [t |-> "str", v |-> d.v]

\* missing planting_id
NoId == 0

\* ------------------------------------------------------------------------
\* Crop knowledge base (the structure of tracker/data.json)
\* ------------------------------------------------------------------------
plant_data ==
  [ Radishes |-> << [task_title |-> "Sow seeds directly", days_after_planting |-> 0],
                    [task_title |-> "Thin seedlings",     days_after_planting |-> 7],
                    [task_title |-> "Harvest early",      days_after_planting |-> 21] >>,
    Carrots  |-> << [task_title |-> "Sow seeds directly", days_after_planting |-> 0],
                    [task_title |-> "First thinning",     days_after_planting |-> 14],
                    [task_title |-> "Second thinning",    days_after_planting |-> 28],
                    [task_title |-> "Weed and mulch",     days_after_planting |-> 21] >> ]

\* crop names a user submits, and planting dates a user submits
CropInputs == {"Radishes", "Carrots", "radishes"}

PlantingDates == {Today - 21}

\* normalize_crop_name: exact match, then title case, (then the fuzzy
\* matches, which none of the modelled inputs needs), else the input itself
title(c) == IF c = "radishes" THEN "Radishes" ELSE IF c = "carrots" THEN "Carrots" ELSE c

normalize_crop_name(crop_name) ==
  IF crop_name = "" THEN crop_name
  ELSE IF crop_name \in DOMAIN plant_data THEN crop_name
  ELSE IF title(crop_name) \in DOMAIN plant_data THEN title(crop_name)
  ELSE crop_name

\* list.sort(key=due_date): stable insertion of x into the sorted list s
RECURSIVE InsertByDue(_, _)
InsertByDue(s, x) ==
  IF s = <<>> THEN <<x>>
  ELSE IF s[Len(s)].due_date.v <= x.due_date.v THEN Append(s, x)
  ELSE Append(InsertByDue(SubSeq(s, 1, Len(s) - 1), x), s[Len(s)])

RECURSIVE SortByDue(_)
SortByDue(s) ==
  IF s = <<>> THEN <<>>
  ELSE InsertByDue(SortByDue(SubSeq(s, 1, Len(s) - 1)), s[Len(s)])

\* calculate_plan(crop_name, planting_date, plant_data): due dates are date objects
calculate_plan(crop_name, planting_date) ==
  LET key == IF crop_name \in DOMAIN plant_data THEN crop_name ELSE title(crop_name)
  IN IF key \notin DOMAIN plant_data THEN <<>>
     ELSE LET cs == plant_data[key]
          IN SortByDue([i \in 1..Len(cs) |->
                 [task |-> cs[i].task_title,
                  due_date |-> DateObj(planting_date.v + cs[i].days_after_planting)]])

\* the plan with every date object turned into an ISO string
PlanToIso(plan) ==
  [i \in 1..Len(plan) |->
     [plan[i] EXCEPT !.due_date = IF @.t = "date" THEN isoformat(@) ELSE @]]

\* the plan with every ISO string turned into a date object (unparseable -> None)
PlanToDates(plan) ==
  [i \in 1..Len(plan) |->
     [plan[i] EXCEPT !.due_date = IF @.t = "str" THEN fromisoformat(@)
                                  ELSE IF @.t = "date" THEN @ ELSE NoDate]]

\* ------------------------------------------------------------------------
\* Durable plantings table (DynamoDB, key planting_id)
\* ------------------------------------------------------------------------
\* table.put_item: the item replaces the item that has the same key
PutItem(table, item) ==
  {r \in table : r.planting_id # item.planting_id} \cup {item}

\* the resource serializer inside table.put_item accepts strings, numbers,
\* lists and maps; a datetime.date value raises TypeError before the request
Serializable(item) ==
  /\ item.planting_date.t # "date"
  /\ item.harvest_date.t # "date"
  /\ \A i \in DOMAIN item.plan : item.plan[i].due_date.t # "date"

\* save_planting_to_dynamodb(planting): planting_id on success, None (NoId)
\* on a refused or failed write.  Every caller passes a dict with a planting_id.
save_planting_to_dynamodb(table, planting, putOk) ==
  IF planting.user_id = "" /\ planting.username = ""
    THEN [id |-> NoId, table |-> table]
  ELSE IF ~Serializable(planting) \/ ~putOk
    THEN [id |-> NoId, table |-> table]
  ELSE [id |-> planting.planting_id, table |-> PutItem(table, planting)]

\* the items of a result page, in the table's (hash) order of the keys
RECURSIVE SeqById(_)
SeqById(S) ==
  IF S = {} THEN <<>>
  ELSE LET m == CHOOSE r \in S : \A q \in S : r.planting_id <= q.planting_id
       IN <<m>> \o SeqById(S \ {m})

\* load_user_plantings(user_id) (the definition in force, the second one)
\* over a table whose responses hold page_items items each: the Items of the
\* one response of the index query, else the Items of all pages of the scan
\* with filter, else [] (errors are swallowed)
load_user_plantings_paged(table, user_id, queryOk, scanOk, page_items) ==
  LET mine == SeqById({r \in table : r.user_id = user_id})
  IN IF queryOk
       THEN SubSeq(mine, 1, IF Len(mine) < page_items THEN Len(mine) ELSE page_items)
     ELSE IF scanOk THEN mine
     ELSE <<>>

\* load_user_plantings(user_id) when the plantings of a user fit into one
\* response of the store
load_user_plantings(table, user_id, queryOk, scanOk) ==
  load_user_plantings_paged(table, user_id, queryOk, scanOk, Cardinality(table))

\* delete_planting_from_dynamodb(planting_id)
delete_planting_from_dynamodb(table, planting_id, delOk) ==
  IF delOk THEN [ok |-> TRUE, table |-> {r \in table : r.planting_id # planting_id}]
  ELSE [ok |-> FALSE, table |-> table]

\* ------------------------------------------------------------------------
\* Notifications: durable table (key notification_id) and session lists
\* ------------------------------------------------------------------------
\* os.getenv("USE_LOCAL_NOTIFICATIONS", "False")
USE_LOCAL_NOTIFICATIONS == FALSE

\* notifications[:100] in _save_notification_to_session
SessionKeep == 100

\* limit of load_user_notifications in get_notification_summaries
SummaryLimit == 50

\* limit of load_user_notifications in mark_all_notifications_read
MarkAllLimit == 1000

\* days_ahead in get_notification_summaries, and the Upcoming horizon of index
days_ahead == 7

NoMeta == [crop_name |-> "", task |-> "", due_date |-> NoDate, harvest_date |-> NoDate]

Notification(nid, clock, user_id, ntype, planting_id, meta) ==
  [notification_id |-> nid, user_id |-> user_id, notification_type |-> ntype,
   crop_name |-> meta.crop_name, task |-> meta.task, due_date |-> meta.due_date,
   harvest_date |-> meta.harvest_date, planting_id |-> planting_id,
   created_at |-> clock, read |-> FALSE]

Prefix(s, n) == SubSeq(s, 1, IF Len(s) < n THEN Len(s) ELSE n)

\* the session list with the new notification added at the end
save_notification_to_session_appended(slist, n) == Prefix(slist \o <<n>>, SessionKeep)

\* _save_notification_to_session: prepend, keep the first 100
save_notification_to_session(slist, n) == Prefix(<<n>> \o slist, SessionKeep)

\* save_notification without the session fallback
save_notification_durable_only(ntab, sess, nid, clock, user_id, ntype, planting_id, meta, hasRequest, putOk) ==
  IF ~USE_LOCAL_NOTIFICATIONS /\ putOk
    THEN [id |-> nid,
          ntab |-> ntab \cup {Notification(nid, clock, user_id, ntype, planting_id, meta)},
          sess |-> sess, tier |-> "durable"]
  ELSE [id |-> NoId, ntab |-> ntab, sess |-> sess, tier |-> "none"]

\* save_notification(user_id, type, ..., request): durable table first, the
\* session list of the request on any failure; the id, or None (NoId)
save_notification(ntab, sess, nid, clock, user_id, ntype, planting_id, meta, hasRequest, putOk) ==
  LET n == Notification(nid, clock, user_id, ntype, planting_id, meta)
  IN IF ~USE_LOCAL_NOTIFICATIONS /\ putOk
       THEN [id |-> nid, ntab |-> ntab \cup {n}, sess |-> sess, tier |-> "durable"]
     ELSE IF hasRequest
       THEN [id |-> nid, ntab |-> ntab,
             sess |-> [sess EXCEPT ![user_id] = save_notification_to_session(@, n)],
             tier |-> "session"]
     ELSE [id |-> NoId, ntab |-> ntab, sess |-> sess, tier |-> "none"]

\* newest first (created_at descending; equal seconds by descending id)
RECURSIVE NewestFirst(_)
NewestFirst(S) ==
  IF S = {} THEN <<>>
  ELSE LET m == CHOOSE r \in S : \A q \in S :
                   \/ r.created_at > q.created_at
                   \/ r.created_at = q.created_at /\ r.notification_id >= q.notification_id
       IN <<m>> \o NewestFirst(S \ {m})

Unread(s) == SelectSeq(s, LAMBDA n : ~n.read)

\* list.sort(key=created_at, reverse=True): stable
RECURSIVE InsertByCreated(_, _)
InsertByCreated(s, x) ==
  IF s = <<>> THEN <<x>>
  ELSE IF s[Len(s)].created_at >= x.created_at THEN Append(s, x)
  ELSE Append(InsertByCreated(SubSeq(s, 1, Len(s) - 1), x), s[Len(s)])

RECURSIVE SortByCreatedDesc(_)
SortByCreatedDesc(s) ==
  IF s = <<>> THEN <<>>
  ELSE InsertByCreated(SortByCreatedDesc(SubSeq(s, 1, Len(s) - 1)), s[Len(s)])

\* _load_notifications_from_session
load_notifications_from_session(slist, limit, unread_only) ==
  Prefix(SortByCreatedDesc(IF unread_only THEN Unread(slist) ELSE slist), limit)

\* load_user_notifications(user_id, limit, unread_only, request).
\* query: "ok", or "fail" (ClientError of the index query, the scan follows);
\* scanOk = FALSE: the scan raises, the session list of the request follows.
load_user_notifications(ntab, sess, user_id, limit, unread_only, hasRequest, queryOk, scanOk) ==
  LET mine == {n \in ntab : n.user_id = user_id}
      page == Prefix(NewestFirst(mine), limit)
      viaIndex == IF unread_only THEN Unread(page) ELSE page
      viaScan == Prefix(NewestFirst(IF unread_only THEN {n \in mine : ~n.read} ELSE mine), limit)
      local == IF hasRequest
                 THEN load_notifications_from_session(sess[user_id], limit, unread_only)
                 ELSE <<>>
  IN IF USE_LOCAL_NOTIFICATIONS THEN local
     ELSE IF queryOk /\ viaIndex # <<>> THEN viaIndex
     ELSE IF scanOk THEN viaScan
     ELSE local

\* ------------------------------------------------------------------------
\* index: the reconciled planting view
\* ------------------------------------------------------------------------
\* the session plantings of the user (views.py, filtered_session)
filtered_session(session_plantings, user_id, username) ==
  SelectSeq(session_plantings, LAMBDA p : p.user_id = user_id \/ p.username = username)

IdsOf(s) == {s[i].planting_id : i \in DOMAIN s} \ {NoId}

\* STEP 2 of index: the durable query and the flag dynamodb_load_failed.
\* load_user_plantings swallows every error of the store and returns [], so
\* the except branch of index that sets the flag is not taken.
index_load(table, user_id, queryOk, scanOk) ==
  [items |-> IF user_id # "" THEN load_user_plantings(table, user_id, queryOk, scanOk)
             ELSE <<>>,
   dynamodb_load_failed |-> FALSE]

\* the merge without the test against the durable planting_ids
merge_plantings_no_dedupe(dynamodb_plantings, session_plantings, user_id, username, dynamodb_load_failed) ==
  IF session_plantings = <<>> THEN dynamodb_plantings
  ELSE IF user_id # ""
    THEN dynamodb_plantings \o
         SelectSeq(filtered_session(session_plantings, user_id, username),
                   LAMBDA p : p.planting_id # NoId)
  ELSE IF dynamodb_plantings = <<>> THEN session_plantings
  ELSE dynamodb_plantings

\* the merge with the session entries first and the durable results added
\* when the session has no entry with their planting_id
merge_plantings_session_first(dynamodb_plantings, session_plantings, user_id, username, dynamodb_load_failed) ==
  LET fs == SelectSeq(filtered_session(session_plantings, user_id, username),
                      LAMBDA p : p.planting_id # NoId)
  IN IF session_plantings = <<>> THEN dynamodb_plantings
     ELSE IF user_id # ""
       THEN SelectSeq(dynamodb_plantings, LAMBDA p : p.planting_id \notin IdsOf(fs)) \o fs
     ELSE IF dynamodb_plantings = <<>> THEN session_plantings
     ELSE dynamodb_plantings

\* the merge of index: durable results first, then the session plantings of
\* the user whose planting_id is not among the durable results
merge_plantings(dynamodb_plantings, session_plantings, user_id, username, dynamodb_load_failed) ==
  LET dynamodb_ids == IdsOf(dynamodb_plantings)
      fs == filtered_session(session_plantings, user_id, username)
      merged == IF session_plantings = <<>> THEN dynamodb_plantings
                ELSE IF user_id # ""
                  THEN dynamodb_plantings \o
                       SelectSeq(fs, LAMBDA p : p.planting_id # NoId
                                                /\ p.planting_id \notin dynamodb_ids)
                ELSE IF dynamodb_plantings = <<>> THEN session_plantings
                ELSE dynamodb_plantings
  IN IF dynamodb_load_failed /\ merged = <<>> /\ session_plantings # <<>>
       THEN IF user_id # "" THEN (IF fs # <<>> THEN fs ELSE merged)
            ELSE session_plantings
     ELSE merged

\* the last task of the plan that has a due date (index, harvest_task)
RECURSIVE harvest_task_date(_)
harvest_task_date(plan) ==
  IF plan = <<>> THEN NoDate
  ELSE IF plan[Len(plan)].due_date.t = "date" THEN plan[Len(plan)].due_date
  ELSE harvest_task_date(SubSeq(plan, 1, Len(plan) - 1))

\* the buckets with the horizon day itself counted as ongoing
classify_exclusive(harvest_date, today) ==
  IF harvest_date.t # "date" THEN "ongoing"
  ELSE IF harvest_date.v - today < 0 THEN "past"
  ELSE IF harvest_date.v - today < days_ahead THEN "upcoming"
  ELSE "ongoing"

\* the bucket of index for a harvest date (None: no harvest date)
classify(harvest_date, today) ==
  IF harvest_date.t # "date" THEN "ongoing"
  ELSE IF harvest_date.v - today < 0 THEN "past"
  ELSE IF harvest_date.v - today <= days_ahead THEN "upcoming"
  ELSE "ongoing"

\* the dict with planting_date turned back into an ISO string as well
updated_planting_iso(planting, crop_name, calculated_plan, user_id, username) ==
  [planting EXCEPT !.plan = PlanToIso(calculated_plan),
                   !.crop_name = crop_name,
                   !.planting_date = IF @.t = "date" THEN isoformat(@) ELSE @,
                   !.user_id = IF @ = "" THEN user_id ELSE @,
                   !.username = IF @ = "" THEN username ELSE @]

\* the dict that index hands to save_planting_to_dynamodb after it has
\* regenerated the plan: a copy of the in-memory planting (planting_date is
\* a date object there), the plan with ISO strings, the normalized crop name
updated_planting(planting, crop_name, calculated_plan, user_id, username) ==
  [planting EXCEPT !.plan = PlanToIso(calculated_plan),
                   !.crop_name = crop_name,
                   !.user_id = IF @ = "" THEN user_id ELSE @,
                   !.username = IF @ = "" THEN username ELSE @]

\* one iteration of the loop of index over user_plantings (i counts from 0)
process_planting(planting_data, i, table, user_id, username, putOk) ==
  LET skip == [table |-> table, window |-> "skipped", entry |-> [id |-> i, p |-> planting_data]]
  IN IF planting_data.planting_date.t \notin {"str", "date"} THEN skip
     ELSE
       LET pdate == IF planting_data.planting_date.t = "str"
                      THEN fromisoformat(planting_data.planting_date)
                      ELSE planting_data.planting_date
           planting == [planting_data EXCEPT !.planting_date = pdate]
           crop_name_raw == planting.crop_name
           crop_name == normalize_crop_name(crop_name_raw)
       IN IF crop_name_raw # "" /\ crop_name \notin DOMAIN plant_data THEN skip
          ELSE
            LET calculated_plan == IF crop_name_raw # ""
                                     THEN calculate_plan(crop_name, pdate) ELSE <<>>
                saved == IF calculated_plan # <<>> /\ planting.planting_id # NoId
                           THEN save_planting_to_dynamodb(table,
                                   updated_planting(planting, crop_name, calculated_plan,
                                                    user_id, username), putOk)
                           ELSE [id |-> NoId, table |-> table]
                plan == IF crop_name_raw # "" THEN calculated_plan ELSE planting.plan
                plan_list == PlanToDates(plan)
                harvest_date == harvest_task_date(plan_list)
                shown == [planting EXCEPT !.crop_name = crop_name,
                                          !.plan = plan_list,
                                          !.harvest_date = IF harvest_date.t = "date"
                                                             THEN harvest_date ELSE @]
            IN [table |-> saved.table,
                window |-> classify(harvest_date, Today),
                entry |-> [id |-> i, p |-> shown]]

\* the loop of index: the table after the auto-saves and the three lists
RECURSIVE process_plantings(_, _, _, _, _, _)
RECURSIVE process_plantings_abort(_, _, _, _, _, _)
\* the loop left at the first planting that cannot be processed
process_plantings_abort(user_plantings, n, table, user_id, username, putOk) ==
  IF n = 0 THEN [table |-> table, ongoing |-> <<>>, upcoming |-> <<>>, past |-> <<>>]
  ELSE LET before == process_plantings_abort(user_plantings, n - 1, table, user_id, username, putOk)
           r == process_planting(user_plantings[n], n - 1, before.table, user_id, username, putOk)
       IN IF \E m \in 1..n :
                process_planting(user_plantings[m], m - 1, table, user_id, username, putOk).window
                   = "skipped"
            THEN before
          ELSE [table |-> r.table,
                ongoing |-> IF r.window = "ongoing" THEN Append(before.ongoing, r.entry)
                            ELSE before.ongoing,
                upcoming |-> IF r.window = "upcoming" THEN Append(before.upcoming, r.entry)
                             ELSE before.upcoming,
                past |-> IF r.window = "past" THEN Append(before.past, r.entry)
                         ELSE before.past]

process_plantings(user_plantings, n, table, user_id, username, putOk) ==
  IF n = 0 THEN [table |-> table, ongoing |-> <<>>, upcoming |-> <<>>, past |-> <<>>]
  ELSE LET before == process_plantings(user_plantings, n - 1, table, user_id, username, putOk)
           r == process_planting(user_plantings[n], n - 1, before.table, user_id, username, putOk)
       IN [table |-> r.table,
           ongoing |-> IF r.window = "ongoing" THEN Append(before.ongoing, r.entry)
                       ELSE before.ongoing,
           upcoming |-> IF r.window = "upcoming" THEN Append(before.upcoming, r.entry)
                        ELSE before.upcoming,
           past |-> IF r.window = "past" THEN Append(before.past, r.entry)
                    ELSE before.past]

\* ------------------------------------------------------------------------
\* get_notification_summaries: the reminders of one run
\* ------------------------------------------------------------------------
\* 0 <= (due - today).days <= days_ahead, for a due date that parses
InWindow(d) ==
  /\ d.t \in {"str", "date"}
  /\ 0 <= d.v - Today
  /\ d.v - Today <= days_ahead

\* the dedupe check of a step reminder against the notifications loaded at
\* the start of the run
existing_step(in_app_notifications, crop_name, due_date, task) ==
  \E i \in DOMAIN in_app_notifications :
     /\ in_app_notifications[i].notification_type = "step_reminder"
     /\ in_app_notifications[i].crop_name = crop_name
     /\ in_app_notifications[i].due_date = IsoStr(due_date.v)
     /\ in_app_notifications[i].task = task

\* the dedupe check of a harvest reminder
existing_harvest(in_app_notifications, crop_name, harvest_date) ==
  \E i \in DOMAIN in_app_notifications :
     /\ in_app_notifications[i].notification_type = "harvest_reminder"
     /\ in_app_notifications[i].crop_name = crop_name
     /\ in_app_notifications[i].harvest_date = IsoStr(harvest_date.v)

\* the save_notification calls that the loop makes for one planting, in order
RECURSIVE step_emissions(_, _, _, _)
step_emissions(plan, crop_name, planting_id, in_app_notifications) ==
  IF plan = <<>> THEN <<>>
  ELSE LET task == plan[1]
           rest == step_emissions(Tail(plan), crop_name, planting_id, in_app_notifications)
       IN IF InWindow(task.due_date)
             /\ ~existing_step(in_app_notifications, crop_name, task.due_date, task.task)
            THEN <<[ntype |-> "step_reminder", planting_id |-> planting_id,
                    meta |-> [crop_name |-> crop_name, task |-> task.task,
                              due_date |-> IsoStr(task.due_date.v),
                              harvest_date |-> NoDate]]>> \o rest
          ELSE rest

harvest_emissions(planting, in_app_notifications) ==
  IF InWindow(planting.harvest_date)
     /\ ~existing_harvest(in_app_notifications, planting.crop_name, planting.harvest_date)
    THEN <<[ntype |-> "harvest_reminder", planting_id |-> planting.planting_id,
            meta |-> [crop_name |-> planting.crop_name, task |-> "",
                      due_date |-> NoDate,
                      harvest_date |-> IsoStr(planting.harvest_date.v)]]>>
  ELSE <<>>

RECURSIVE summary_emissions(_, _)
summary_emissions(plantings_list, in_app_notifications) ==
  IF plantings_list = <<>> THEN <<>>
  ELSE LET planting == plantings_list[1]
           rest == summary_emissions(Tail(plantings_list), in_app_notifications)
       IN IF planting.plan = <<>> THEN rest
          ELSE step_emissions(planting.plan, planting.crop_name, planting.planting_id,
                              in_app_notifications)
               \o harvest_emissions(planting, in_app_notifications)
               \o rest

\* the emissions carried out one after the other; putOks[k] is the outcome
\* of the durable write of the k-th call
RECURSIVE save_all(_, _, _, _, _, _, _, _)
save_all(ems, k, ntab, sess, nid, clock, user_id, putOks) ==
  IF k = 0 THEN [ntab |-> ntab, sess |-> sess, nid |-> nid, stored |-> <<>>]
  ELSE LET before == save_all(ems, k - 1, ntab, sess, nid, clock, user_id, putOks)
           r == save_notification(before.ntab, before.sess, before.nid, clock, user_id,
                                  ems[k].ntype, ems[k].planting_id, ems[k].meta,
                                  TRUE, putOks[k])
       IN [ntab |-> r.ntab, sess |-> r.sess, nid |-> before.nid + 1,
           stored |-> IF r.id # NoId
                        THEN Append(before.stored,
                                    Notification(r.id, clock, user_id, ems[k].ntype,
                                                 ems[k].planting_id, ems[k].meta))
                        ELSE before.stored]

\* ------------------------------------------------------------------------
\* State
\* ------------------------------------------------------------------------
VARIABLES
  plantings,      \* durable plantings table: a set of items, key planting_id
  notifications,  \* durable notifications table: a set of items
  sessUser,       \* sub of the id_token kept in the session, "" when logged out
  sessPlantings,  \* request.session['user_plantings']
  sessNotifs,     \* request.session['notifications_<user_id>'], per user_id
  nextPid,        \* the next planting id that uuid4 yields
  nextNid,        \* the next notification id that uuid4 yields
  clock,          \* int(time.time())
  users,          \* durable users table, in the order a scan returns the items
  otherSession,   \* the session of a second browser (the same three session keys)
  running,        \* the get_notification_summaries requests in flight
  toggled,        \* per user, the last answer of toggle_notifications that reported success
  last            \* what the last request did and returned

vars == <<plantings, notifications, sessUser, sessPlantings, sessNotifs,
          nextPid, nextNid, clock, users, otherSession, running, toggled, last>>

\* a session without tokens and without cached plantings or notifications
NoSession == [sessUser |-> "", sessPlantings |-> <<>>, sessNotifs |-> [u \in Users |-> <<>>]]

\* no get_notification_summaries request is in flight
NoRequests == [r \in 1..2 |-> [pc |-> "idle", in_app_notifications |-> <<>>]]

NoObs ==
  [op |-> "none", user |-> "", carried |-> FALSE,
   loadFailed |-> FALSE, degraded |-> FALSE,
   durable |-> <<>>, session |-> <<>>, merged |-> <<>>,
   ongoing |-> <<>>, upcoming |-> <<>>, past |-> <<>>,
   notifPutOk |-> TRUE, notifId |-> NoId,
   preloaded |-> <<>>, stored |-> <<>>, loaded |-> <<>>,
   unread |-> {}, attempted |-> {}, succeeded |-> {}, result |-> FALSE,
   status |-> "", total |-> 0, sent |-> 0, skipped |-> 0, failed |-> 0,
   events |-> <<>>,
   generator |-> "", crop_name |-> "", planting_date |-> NoDate, plan |-> <<>>,
   page_items |-> 0, viaQuery |-> <<>>, viaScan |-> <<>>,
   url_id |-> 0, deleted |-> NoId, popped |-> NoId, enabled |-> FALSE]

Init ==
  /\ plantings = {}
  /\ notifications = {}
  /\ sessUser = ""
  /\ sessPlantings = <<>>
  /\ sessNotifs = [u \in Users |-> <<>>]
  /\ nextPid = 1
  /\ nextNid = 1
  /\ clock = 0
  /\ users = <<>>
  /\ otherSession = NoSession
  /\ running = NoRequests
  /\ toggled = [u \in Users |-> "none"]
  /\ last = NoObs

\* time passes
Tick ==
  /\ clock < MaxClock
  /\ clock' = clock + 1
  /\ last' = [NoObs EXCEPT !.op = "tick"]
  /\ UNCHANGED <<users, otherSession, running, toggled, plantings, notifications, sessUser, sessPlantings, sessNotifs,
                 nextPid, nextNid>>

\* ------------------------------------------------------------------------
\* Login and logout
\* ------------------------------------------------------------------------
\* the migration loop of persist_cognito_user over the popped session
\* plantings; putOks[k] is the outcome of the k-th durable write
RECURSIVE migrate_session_plantings(_, _, _, _, _, _)
migrate_session_plantings(session_plantings, k, table, resolved_user_id, username, putOks) ==
  IF k = 0 THEN table
  ELSE LET before == migrate_session_plantings(session_plantings, k - 1, table,
                                       resolved_user_id, username, putOks)
           sp == [session_plantings[k] EXCEPT !.user_id = resolved_user_id,
                                              !.username = username]
       IN save_planting_to_dynamodb(before, sp, putOks[k]).table

\* cognito_callback: the tokens go to the session, persist_cognito_user
\* pops the session plantings and writes them to the table under the user
CognitoCallback(u, putOks) ==
  /\ sessUser' = u
  /\ sessPlantings' = <<>>
  /\ plantings' = migrate_session_plantings(sessPlantings, Len(sessPlantings), plantings,
                                    u, usernameOf(u), putOks)
  /\ last' = [NoObs EXCEPT !.op = "login", !.user = u, !.carried = TRUE,
                           !.session = sessPlantings]
  /\ UNCHANGED <<users, otherSession, running, toggled, notifications, sessNotifs, nextPid, nextNid, clock>>

Login ==
  \E u \in Users : \E putOks \in [1..Len(sessPlantings) -> BOOLEAN] :
     CognitoCallback(u, putOks)

\* cognito_logout: the tokens leave the session, the rest of it stays
cognito_logout ==
  /\ sessUser # ""
  /\ sessUser' = ""
  /\ last' = [NoObs EXCEPT !.op = "logout", !.user = sessUser, !.carried = TRUE]
  /\ UNCHANGED <<users, otherSession, running, toggled, plantings, notifications, sessPlantings, sessNotifs,
                 nextPid, nextNid, clock>>

\* ------------------------------------------------------------------------
\* index
\* ------------------------------------------------------------------------
IndexRequest(queryOk, scanOk, putOk) ==
  LET user_id == sessUser
      username == usernameOf(user_id)
      loadres == index_load(plantings, user_id, queryOk, scanOk)
      user_plantings == merge_plantings(loadres.items, sessPlantings, user_id, username,
                                        loadres.dynamodb_load_failed)
      r == process_plantings(user_plantings, Len(user_plantings), plantings,
                             user_id, username, putOk)
  IN /\ plantings' = r.table
     /\ last' = [NoObs EXCEPT !.op = "index", !.user = user_id, !.carried = TRUE,
                              !.loadFailed = (user_id # "" /\ ~queryOk /\ ~scanOk),
                              !.degraded = loadres.dynamodb_load_failed,
                              !.durable = loadres.items,
                              !.session = sessPlantings,
                              !.merged = user_plantings,
                              !.ongoing = r.ongoing,
                              !.upcoming = r.upcoming,
                              !.past = r.past]
     /\ UNCHANGED <<users, otherSession, running, toggled, notifications, sessUser, sessPlantings, sessNotifs,
                    nextPid, nextNid, clock>>

index ==
  \E queryOk \in BOOLEAN : \E scanOk \in BOOLEAN : \E putOk \in BOOLEAN :
     IndexRequest(queryOk, scanOk, putOk)

\* ------------------------------------------------------------------------
\* save_planting, update_planting, delete_planting
\* ------------------------------------------------------------------------
\* the notification of a user action, skipped when the user already has a
\* notification of that type for that crop
action_notification_deduped(ntype, user_id, planting_id, crop_name, nPutOk) ==
  IF \E n \in notifications \cup {sessNotifs[user_id][i] : i \in DOMAIN sessNotifs[user_id]} :
        n.user_id = user_id /\ n.notification_type = ntype /\ n.crop_name = crop_name
    THEN [id |-> NoId, ntab |-> notifications, sess |-> sessNotifs, tier |-> "none"]
  ELSE save_notification(notifications, sessNotifs, nextNid, clock, user_id, ntype,
                         planting_id, [NoMeta EXCEPT !.crop_name = crop_name], TRUE, nPutOk)

\* the in-app notification of a user action (save_notification with request)
action_notification(ntype, user_id, planting_id, crop_name, nPutOk) ==
  save_notification(notifications, sessNotifs, nextNid, clock, user_id, ntype,
                    planting_id, [NoMeta EXCEPT !.crop_name = crop_name], TRUE, nPutOk)

\* the dict new_planting of save_planting: normalized crop name, ISO dates,
\* the plan of the calculator; no image is uploaded
new_planting(planting_id, user_id, username, crop_name_raw, planting_date_str) ==
  LET planting_date == fromisoformat(planting_date_str)
      crop_name == normalize_crop_name(crop_name_raw)
      calculated_plan == PlanToIso(calculate_plan(crop_name, planting_date))
  IN [planting_id |-> planting_id, user_id |-> user_id, username |-> username,
      crop_name |-> crop_name,
      planting_date |-> isoformat(planting_date),
      plan |-> calculated_plan, harvest_date |-> NoDate,
      image_url |-> ""]

\* save_planting (POST with crop_name and a parseable planting_date, by an
\* authenticated user): durable write, session append, plant_added
SavePlantingRequest(crop_name_raw, planting_date_str, putOk, nPutOk) ==
  LET user_id == sessUser
      username == usernameOf(user_id)
      crop_name == normalize_crop_name(crop_name_raw)
      np == new_planting(nextPid, user_id, username, crop_name_raw, planting_date_str)
      saved == save_planting_to_dynamodb(plantings, np, putOk)
      notif == action_notification("plant_added", user_id, np.planting_id,
                                   crop_name, nPutOk)
  IN /\ user_id # ""
     /\ nextPid <= MaxPlantings
     /\ nextNid <= MaxNotifs
     /\ plantings' = saved.table
     /\ sessPlantings' = Append(sessPlantings, np)
     /\ notifications' = notif.ntab
     /\ sessNotifs' = notif.sess
     /\ nextPid' = nextPid + 1
     /\ nextNid' = nextNid + 1
     /\ last' = [NoObs EXCEPT !.op = "save_planting", !.user = user_id, !.carried = TRUE,
                              !.notifPutOk = nPutOk, !.notifId = notif.id,
                              !.result = (saved.id # NoId)]
     /\ UNCHANGED <<users, otherSession, running, toggled, sessUser, clock>>

save_planting ==
  \E crop_name_raw \in CropInputs : \E d \in PlantingDates :
  \E putOk \in BOOLEAN : \E nPutOk \in BOOLEAN :
     SavePlantingRequest(crop_name_raw, IsoStr(d), putOk, nPutOk)

\* the key that update_planting uses: the integer of the URL as a string,
\* which is the position in the list of index and no planting_id of uuid4
UrlKey(i) == 0 - (i + 1)

\* table.update_item(Key, SET ...): changes the given attributes of the item
\* with that key, and creates the item when the table has none with that key
update_item(table, key, crop_name) ==
  LET old == {r \in table : r.planting_id = key}
      base == IF old = {} THEN [planting_id |-> key, user_id |-> "", username |-> "",
                                crop_name |-> "", planting_date |-> NoDate,
                                plan |-> <<>>, harvest_date |-> NoDate,
                                image_url |-> ""]
              ELSE CHOOSE r \in old : TRUE
  IN (table \ old) \cup {[base EXCEPT !.crop_name = crop_name]}

\* update_planting(planting_id) (POST with crop_name by an authenticated user)
UpdatePlantingRequest(i, crop_name, updOk, nPutOk) ==
  LET user_id == sessUser
      notif == action_notification("plant_edited", user_id, UrlKey(i), crop_name, nPutOk)
  IN /\ user_id # ""
     /\ nextNid <= MaxNotifs
     /\ IF updOk
          THEN /\ plantings' = update_item(plantings, UrlKey(i), crop_name)
               /\ notifications' = notif.ntab
               /\ sessNotifs' = notif.sess
               /\ nextNid' = nextNid + 1
          ELSE UNCHANGED <<plantings, notifications, sessNotifs, nextNid>>
     /\ last' = [NoObs EXCEPT !.op = "update_planting", !.user = user_id,
                              !.carried = updOk,
                              !.url_id = i, !.crop_name = crop_name,
                              !.notifPutOk = nPutOk,
                              !.notifId = IF updOk THEN notif.id ELSE NoId]
     /\ UNCHANGED <<users, otherSession, running, toggled, sessUser, sessPlantings, nextPid, clock>>

update_planting ==
  \E i \in 0..(MaxPlantings - 1) : \E crop_name \in {"Carrots"} :
  \E updOk \in BOOLEAN : \E nPutOk \in BOOLEAN :
     UpdatePlantingRequest(i, crop_name, updOk, nPutOk)

\* list.pop(i), i counted from 0
Pop(s, i) == SubSeq(s, 1, i) \o SubSeq(s, i + 2, Len(s))

\* delete_planting(planting_id) (POST by an authenticated user)
DeletePlantingRequest(i, queryOk, scanOk, delOk, nPutOk) ==
  LET user_id == sessUser
      loaded == load_user_plantings(plantings, user_id, queryOk, scanOk)
      user_plantings == IF loaded = <<>> THEN sessPlantings ELSE loaded
      inRange == i < Len(user_plantings)
      planting_to_delete == user_plantings[i + 1]
      actual_planting_id == planting_to_delete.planting_id
      deleted == IF actual_planting_id # NoId
                   THEN delete_planting_from_dynamodb(plantings, actual_planting_id, delOk)
                   ELSE [ok |-> FALSE, table |-> plantings]
      notif == action_notification("plant_deleted", user_id, actual_planting_id,
                                   planting_to_delete.crop_name, nPutOk)
  IN /\ user_id # ""
     /\ nextNid <= MaxNotifs
     /\ IF inRange
          THEN /\ plantings' = deleted.table
               /\ notifications' = notif.ntab
               /\ sessNotifs' = notif.sess
               /\ nextNid' = nextNid + 1
               /\ sessPlantings' = Pop(user_plantings, i)
               /\ last' = [NoObs EXCEPT !.op = "delete_planting", !.user = user_id,
                                        !.carried = TRUE,
                                        !.notifPutOk = nPutOk, !.notifId = notif.id,
                                        !.result = deleted.ok,
                                        !.url_id = i,
                                        !.durable = loaded,
                                        !.session = sessPlantings,
                                        !.deleted = IF deleted.ok THEN actual_planting_id
                                                    ELSE NoId,
                                        !.popped = actual_planting_id]
          ELSE /\ last' = [NoObs EXCEPT !.op = "delete_planting", !.user = user_id,
                                        !.url_id = i]
               /\ UNCHANGED <<plantings, notifications, sessNotifs, nextNid, sessPlantings>>
     /\ UNCHANGED <<users, otherSession, running, toggled, sessUser, nextPid, clock>>

delete_planting ==
  \E i \in 0..(MaxPlantings - 1) :
  \E queryOk \in BOOLEAN : \E scanOk \in BOOLEAN :
  \E delOk \in BOOLEAN : \E nPutOk \in BOOLEAN :
     DeletePlantingRequest(i, queryOk, scanOk, delOk, nPutOk)

\* ------------------------------------------------------------------------
\* get_notification_summaries
\* ------------------------------------------------------------------------
SummariesRequest(q1, s1, pq, ps, q2, s2) ==
  LET user_id == sessUser
      in_app_notifications ==
        load_user_notifications(notifications, sessNotifs, user_id, SummaryLimit,
                                FALSE, TRUE, q1, s1)
      plantings_list == load_user_plantings(plantings, user_id, pq, ps)
      ems == summary_emissions(plantings_list, in_app_notifications)
  IN /\ user_id # ""
     /\ nextNid + Len(ems) <= MaxNotifs + 1
     /\ \E putOks \in [1..Len(ems) -> BOOLEAN] :
          LET r == save_all(ems, Len(ems), notifications, sessNotifs, nextNid, clock,
                            user_id, putOks)
              reloaded == load_user_notifications(r.ntab, r.sess, user_id, SummaryLimit,
                                                  FALSE, TRUE, q2, s2)
          IN /\ notifications' = r.ntab
             /\ sessNotifs' = r.sess
             /\ nextNid' = r.nid
             /\ last' = [NoObs EXCEPT !.op = "summaries", !.user = user_id,
                                      !.carried = TRUE,
                                      !.durable = plantings_list,
                                      !.preloaded = in_app_notifications,
                                      !.stored = r.stored,
                                      !.loaded = reloaded]
     /\ UNCHANGED <<users, otherSession, running, toggled, plantings, sessUser, sessPlantings, nextPid, clock>>

get_notification_summaries ==
  \E q1 \in BOOLEAN : \E s1 \in BOOLEAN : \E pq \in BOOLEAN : \E ps \in BOOLEAN :
  \E q2 \in BOOLEAN : \E s2 \in BOOLEAN :
     SummariesRequest(q1, s1, pq, ps, q2, s2)

\* ------------------------------------------------------------------------
\* mark_notification_read, mark_all_notifications_read
\* ------------------------------------------------------------------------
\* mark_notification_read(notification_id): update_item SET read = True
mark_notification_read(ntab, notification_id, updOk) ==
  IF updOk
    THEN [ok |-> TRUE,
          ntab |-> {IF n.notification_id = notification_id
                      THEN [n EXCEPT !.read = TRUE] ELSE n : n \in ntab}]
  ELSE [ok |-> FALSE, ntab |-> ntab]

\* the loop of mark_all_notifications_read; okIds are the notifications
\* whose update succeeds
RECURSIVE mark_each(_, _, _, _)
mark_each(notifs, k, ntab, okIds) ==
  IF k = 0 THEN [ntab |-> ntab, success_count |-> 0]
  ELSE LET before == mark_each(notifs, k - 1, ntab, okIds)
           r == mark_notification_read(before.ntab, notifs[k].notification_id,
                                       notifs[k].notification_id \in okIds)
       IN [ntab |-> r.ntab,
           success_count |-> before.success_count + (IF r.ok THEN 1 ELSE 0)]

\* success_count > 0
mark_all_result(success_count) == success_count > 0

\* the unread notifications of the user in the durable table and in the
\* session list of the user
unread_ids(user_id) ==
  {n.notification_id : n \in {m \in notifications : m.user_id = user_id /\ ~m.read}}
  \cup {sessNotifs[user_id][i].notification_id :
          i \in {j \in DOMAIN sessNotifs[user_id] : ~sessNotifs[user_id][j].read}}

\* mark_all_notifications_read(user_id): no request, so no session list
MarkAllRequest(user_id, queryOk, scanOk, okIds) ==
  LET notifs == load_user_notifications(notifications, sessNotifs, user_id,
                                        MarkAllLimit, TRUE, FALSE, queryOk, scanOk)
      ids == {notifs[k].notification_id : k \in DOMAIN notifs}
      r == mark_each(notifs, Len(notifs), notifications, okIds)
  IN /\ okIds \subseteq ids
     /\ notifications' = r.ntab
     /\ last' = [NoObs EXCEPT !.op = "mark_all", !.user = user_id,
                              !.carried = (queryOk \/ scanOk),
                              !.unread = unread_ids(user_id),
                              !.attempted = ids,
                              !.succeeded = okIds,
                              !.result = mark_all_result(r.success_count)]
     /\ UNCHANGED <<users, otherSession, running, toggled, plantings, sessUser, sessPlantings, sessNotifs,
                    nextPid, nextNid, clock>>

mark_all_notifications_read ==
  \E user_id \in Users : \E queryOk \in BOOLEAN : \E scanOk \in BOOLEAN :
  \E okIds \in SUBSET (1..MaxNotifs) :
     MarkAllRequest(user_id, queryOk, scanOk, okIds)

\* ------------------------------------------------------------------------
\* manage.py migrate_plantings
\* ------------------------------------------------------------------------
\* users_table.get_item(Key={"username": username}): the user_id of a username
userIdOf(username) ==
  IF username = "alice" THEN "u1" ELSE IF username = "bob" THEN "u2" ELSE ""

\* one item after the command: user_id resolved from the username when it is
\* missing, image_url set when it is empty and the bucket holds an object
\* whose key contains the planting_id
migrated_item(r, found) ==
  [r EXCEPT !.user_id = IF @ = "" /\ r.username # "" THEN userIdOf(r.username) ELSE @,
            !.image_url = IF @ = "" /\ r.planting_id \in found THEN "s3" ELSE @]

\* the command over the whole table; found are the planting_ids with an
\* object in the bucket
MigratePlantings(found) ==
  /\ plantings' = {migrated_item(r, found) : r \in plantings}
  /\ plantings' # plantings
  /\ last' = [NoObs EXCEPT !.op = "migrate_plantings"]
  /\ UNCHANGED <<users, otherSession, running, toggled, notifications, sessUser, sessPlantings, sessNotifs,
                 nextPid, nextNid, clock>>

migrate_plantings ==
  \E found \in SUBSET {r.planting_id : r \in plantings} : MigratePlantings(found)

\* ------------------------------------------------------------------------
\* The daily digest (scripts/lambda_daily_notifications.py)
\* ------------------------------------------------------------------------
\* harvest_window of load_crop_data (the care schedules are those of plant_data)
harvest_window == [Radishes |-> [start |-> 21], Carrots |-> [start |-> 60]]

\* task_item.get("is_harvest", False)
is_harvest(task_item) ==
  IF "is_harvest" \in DOMAIN task_item THEN task_item.is_harvest ELSE FALSE

\* calculate_planting_plan(planting, data_json): the dated tasks of a stored
\* plan when there are any and the planting_date parses, else the care
\* schedule in its order followed by the task "Harvest"
calculate_planting_plan(planting) ==
  LET crop_name == planting.crop_name
      key == IF title(crop_name) \in DOMAIN plant_data THEN title(crop_name) ELSE crop_name
      existing == SelectSeq(planting.plan, LAMBDA task_item : task_item.due_date.t # "none")
  IN IF planting.planting_date.t \in {"str", "date"} /\ existing # <<>> THEN existing
     ELSE IF crop_name = "" \/ planting.planting_date.t \notin {"str", "date"} THEN <<>>
     ELSE IF key \notin DOMAIN plant_data THEN <<>>
     ELSE LET cs == plant_data[key]
              planting_date == planting.planting_date.v
          IN [i \in 1..Len(cs) |->
                [task |-> cs[i].task_title,
                 due_date |-> IsoStr(planting_date + cs[i].days_after_planting),
                 is_harvest |-> FALSE]]
             \o << [task |-> "Harvest",
                    due_date |-> IsoStr(planting_date + harvest_window[key].start),
                    is_harvest |-> TRUE] >>

\* get_user_plantings(user_id): the index query when it returns items, else
\* the scan with filter, else [] (errors are swallowed)
get_user_plantings(table, user_id, queryOk, scanOk) ==
  LET mine == SeqById({r \in table : r.user_id = user_id})
  IN IF queryOk /\ mine # <<>> THEN mine
     ELSE IF scanOk THEN mine
     ELSE <<>>

\* the plan that the digest reads for a planting: the stored plan, and the
\* calculated one when the planting has no stored plan
digest_plan(planting) ==
  IF planting.plan # <<>> THEN planting.plan ELSE calculate_planting_plan(planting)

\* the entries of one planting with today <= due_date <= today + DAYS_AHEAD
RECURSIVE due_entries(_, _)
due_entries(plan, planting) ==
  IF plan = <<>> THEN <<>>
  ELSE LET task_item == plan[1]
           rest == due_entries(Tail(plan), planting)
       IN IF InWindow(task_item.due_date)
            THEN << [crop_name |-> planting.crop_name, task |-> task_item.task,
                     due_date |-> IsoStr(task_item.due_date.v),
                     days_until |-> task_item.due_date.v - Today,
                     planting_id |-> planting.planting_id,
                     is_harvest |-> is_harvest(task_item)] >> \o rest
          ELSE rest

RECURSIVE all_due_entries(_)
all_due_entries(user_plantings) ==
  IF user_plantings = <<>> THEN <<>>
  ELSE due_entries(digest_plan(user_plantings[1]), user_plantings[1])
       \o all_due_entries(Tail(user_plantings))

\* get_upcoming_tasks_and_harvests(user_plantings, DAYS_AHEAD)
get_upcoming_tasks_and_harvests(user_plantings) ==
  LET es == all_due_entries(user_plantings)
  IN [upcoming_tasks |-> SortByDue(SelectSeq(es, LAMBDA e : ~e.is_harvest)),
      upcoming_harvests |-> SortByDue(SelectSeq(es, LAMBDA e : e.is_harvest))]

\* a preference check that lets every user through
check_user_notification_preference_ignored(user_item) == TRUE

\* check_user_notification_preference(user_item); a missing attribute counts
\* as True and is carried as TRUE
check_user_notification_preference(user_item) == user_item.notifications_enabled

\* the outcomes of sns.publish: a MessageId, ClientError, or an error of the
\* connection (botocore EndpointConnectionError, which is no ClientError)
PublishOutcomes == {"ok", "ClientError", "EndpointConnectionError"}

\* an entry of the log of one run: the position of the user, what happened,
\* the plantings read for the user and the content of the message
Event(i, what, msg) ==
  [i |-> i, what |-> what, user_plantings |-> msg.user_plantings,
   upcoming_tasks |-> msg.upcoming_tasks, upcoming_harvests |-> msg.upcoming_harvests]

NoMsg == [user_plantings |-> <<>>, upcoming_tasks |-> <<>>, upcoming_harvests |-> <<>>]

\* the plantings and the lists that build_message gets for a user
digest_message(user_plantings) ==
  LET r == get_upcoming_tasks_and_harvests(user_plantings)
  IN [user_plantings |-> user_plantings,
      upcoming_tasks |-> r.upcoming_tasks, upcoming_harvests |-> r.upcoming_harvests]

\* skipped += 1; continue
digest_skipped(b, k) ==
  [b EXCEPT !.skipped = @ + 1, !.events = Append(@, Event(k, "skipped", NoMsg))]

\* the branch of a failed publish that leaves the counters as they are
digest_failed_uncounted(b, k, msg) ==
  [b EXCEPT !.events = Append(@, Event(k, "publish_failed", msg))]

\* ok is False: failed += 1
digest_failed(b, k, msg) ==
  [b EXCEPT !.failed = @ + 1, !.events = Append(@, Event(k, "publish_failed", msg))]

\* ok is True: sent += 1
digest_sent(b, k, msg) ==
  [b EXCEPT !.sent = @ + 1, !.events = Append(@, Event(k, "published", msg))]

\* if i % BATCH_SIZE == 0: time.sleep(BATCH_PAUSE_SECONDS)
batch_pause(r, k) ==
  IF k % BATCH_SIZE = 0
    THEN [r EXCEPT !.events = Append(@, Event(k, "pause", NoMsg))]
  ELSE r

\* the loop of lambda_handler over the first k scanned users.  topicOk: the
\* environment has an SNS_TOPIC_ARN; pub[i]: the outcome of sns.publish for
\* the i-th user.  raised: an exception left the handler.
RECURSIVE digest_loop(_, _, _, _, _, _, _)
digest_loop(us, k, table, topicOk, pub, queryOk, scanOk) ==
  IF k = 0 THEN [sent |-> 0, skipped |-> 0, failed |-> 0, raised |-> FALSE, events |-> <<>>]
  ELSE
    LET b == digest_loop(us, k - 1, table, topicOk, pub, queryOk, scanOk)
        user == us[k]
        user_id == user.user_id
        user_plantings == get_user_plantings(table, user_id, queryOk, scanOk)
        msg == digest_message(user_plantings)
    IN IF b.raised THEN b
       ELSE IF user_id = "" THEN digest_skipped(b, k)
       ELSE IF ~check_user_notification_preference(user) THEN digest_skipped(b, k)
       ELSE IF user.email = "" THEN digest_skipped(b, k)
       ELSE IF ~topicOk
         THEN [b EXCEPT !.raised = TRUE, !.events = Append(@, Event(k, "raised", msg))]
       ELSE IF pub[k] = "ok" THEN batch_pause(digest_sent(b, k, msg), k)
       ELSE IF pub[k] = "ClientError" THEN batch_pause(digest_failed(b, k, msg), k)
       ELSE [b EXCEPT !.raised = TRUE, !.events = Append(@, Event(k, "publish_raised", msg))]

\* lambda_handler(event, context) of the digest
LambdaHandler(usersScanOk, topicOk, pub, queryOk, scanOk) ==
  LET r == digest_loop(users, Len(users), plantings, topicOk, pub, queryOk, scanOk)
  IN /\ last' = IF ~usersScanOk
                  THEN [NoObs EXCEPT !.op = "digest", !.status = "error"]
                ELSE IF r.raised
                  THEN [NoObs EXCEPT !.op = "digest", !.status = "raised",
                                     !.events = r.events]
                ELSE [NoObs EXCEPT !.op = "digest", !.carried = TRUE, !.status = "ok",
                                   !.total = Len(users), !.sent = r.sent,
                                   !.skipped = r.skipped, !.failed = r.failed,
                                   !.events = r.events]
     /\ UNCHANGED <<plantings, notifications, sessUser, sessPlantings, sessNotifs,
                    nextPid, nextNid, clock, users, otherSession, running, toggled>>

lambda_handler ==
  \E usersScanOk \in BOOLEAN : \E topicOk \in BOOLEAN :
  \E pub \in [1..Len(users) -> PublishOutcomes] :
  \E queryOk \in BOOLEAN : \E scanOk \in BOOLEAN :
     LambdaHandler(usersScanOk, topicOk, pub, queryOk, scanOk)

\* ------------------------------------------------------------------------
\* The two plan generators applied to a stored planting
\* ------------------------------------------------------------------------
\* calculate_plan of the tracker ("calculate_plan") or calculate_planting_plan
\* of the digest ("calculate_planting_plan") for the planting p
GeneratePlan(generator, p) ==
  /\ last' = [NoObs EXCEPT !.op = "generate", !.generator = generator,
                           !.crop_name = p.crop_name,
                           !.planting_date = p.planting_date,
                           !.plan = IF generator = "calculate_plan"
                                      THEN calculate_plan(p.crop_name,
                                                          fromisoformat(p.planting_date))
                                    ELSE calculate_planting_plan(p)]
  /\ UNCHANGED <<plantings, notifications, sessUser, sessPlantings, sessNotifs,
                 nextPid, nextNid, clock, users, otherSession, running, toggled>>

generate_plan ==
  \E generator \in {"calculate_plan", "calculate_planting_plan"} : \E p \in plantings :
     GeneratePlan(generator, p)

\* ------------------------------------------------------------------------
\* load_user_plantings answered by the index query and answered by the scan
\* ------------------------------------------------------------------------
LoadUserPlantings(user_id, page_items) ==
  /\ last' = [NoObs EXCEPT !.op = "load", !.user = user_id, !.carried = TRUE,
                           !.page_items = page_items,
                           !.viaQuery = load_user_plantings_paged(plantings, user_id,
                                                                  TRUE, TRUE, page_items),
                           !.viaScan = load_user_plantings_paged(plantings, user_id,
                                                                 FALSE, TRUE, page_items)]
  /\ UNCHANGED <<plantings, notifications, sessUser, sessPlantings, sessNotifs,
                 nextPid, nextNid, clock, users, otherSession, running, toggled>>

load_user_plantings_both ==
  \E user_id \in Users : \E page_items \in 1..MaxPlantings :
     LoadUserPlantings(user_id, page_items)

\* ------------------------------------------------------------------------
\* save_notification when the durable table cannot be written: the
\* notification goes to the session list of the request
\* ------------------------------------------------------------------------
SaveNotificationToSession(user_id, ntype) ==
  LET r == save_notification(notifications, sessNotifs, nextNid, clock, user_id, ntype,
                             NoId, NoMeta, TRUE, FALSE)
  IN /\ user_id # ""
     /\ nextNid <= MaxSessionSaves
     /\ sessNotifs' = r.sess
     /\ notifications' = r.ntab
     /\ nextNid' = nextNid + 1
     /\ last' = [NoObs EXCEPT !.op = "session_save", !.user = user_id, !.carried = TRUE,
                              !.notifPutOk = FALSE, !.notifId = r.id]
     /\ UNCHANGED <<plantings, sessUser, sessPlantings, nextPid, clock, users, otherSession, running, toggled>>

save_notification_session == SaveNotificationToSession(sessUser, "plant_added")

\* ------------------------------------------------------------------------
\* A second browser: the next request carries the other session cookie
\* ------------------------------------------------------------------------
other_browser ==
  /\ sessUser' = otherSession.sessUser
  /\ sessPlantings' = otherSession.sessPlantings
  /\ sessNotifs' = otherSession.sessNotifs
  /\ otherSession' = [sessUser |-> sessUser, sessPlantings |-> sessPlantings,
                      sessNotifs |-> sessNotifs]
  /\ otherSession' # otherSession
  /\ last' = [NoObs EXCEPT !.op = "other_browser"]
  /\ UNCHANGED <<plantings, notifications, nextPid, nextNid, clock, users, running, toggled>>

\* ------------------------------------------------------------------------
\* The users table: toggle_notifications, profile, sync_user_to_dynamo
\* ------------------------------------------------------------------------
\* the positions of the items of the users table with this key (username)
ItemsOfUsername(us, username) == {k \in DOMAIN us : us[k].username = username}

\* table.update_item(Key, SET notifications_enabled = :v): the attribute is
\* set on the item with that key; the item is created when there is none
set_notifications_enabled(us, username, enabled) ==
  IF ItemsOfUsername(us, username) = {}
    THEN Append(us, [user_id |-> "", username |-> username, email |-> "",
                     notifications_enabled |-> enabled])
  ELSE [k \in DOMAIN us |->
          IF us[k].username = username THEN [us[k] EXCEPT !.notifications_enabled = enabled]
          ELSE us[k]]

\* update_user_notification_preference(username_or_userid, enabled): the
\* update by key; after a ClientError of it the scan for items whose user_id
\* equals the argument and the update of each of them; False only when an
\* exception other than that ClientError occurs
update_user_notification_preference(us, username_or_userid, enabled, updOk, scanOk) ==
  IF updOk
    THEN [ok |-> TRUE, users |-> set_notifications_enabled(us, username_or_userid, enabled)]
  ELSE IF scanOk
    THEN [ok |-> TRUE,
          users |-> [k \in DOMAIN us |->
                       IF us[k].user_id = username_or_userid
                         THEN [us[k] EXCEPT !.notifications_enabled = enabled]
                       ELSE us[k]]]
  ELSE [ok |-> FALSE, users |-> us]

\* save_user_to_dynamodb(user_id_value, payload): table.put_item, the item
\* replaces the item with the same key; an attribute that the payload does
\* not have (notifications_enabled) is gone, which readers take as True
save_user_to_dynamodb(us, item, putOk) ==
  IF ~putOk THEN [ok |-> FALSE, users |-> us]
  ELSE IF ItemsOfUsername(us, item.username) = {}
    THEN [ok |-> TRUE, users |-> Append(us, item)]
  ELSE [ok |-> TRUE,
        users |-> [k \in DOMAIN us |-> IF us[k].username = item.username THEN item
                                       ELSE us[k]]]

\* toggle_notifications (POST by an authenticated user, body {enabled})
ToggleNotifications(enabled, updOk, scanOk) ==
  LET username == usernameOf(sessUser)
      r == update_user_notification_preference(users, username, enabled, updOk, scanOk)
  IN /\ sessUser # ""
     /\ users' = r.users
     /\ toggled' = IF r.ok THEN [toggled EXCEPT ![sessUser] = IF enabled THEN "on" ELSE "off"]
                   ELSE toggled
     /\ last' = [NoObs EXCEPT !.op = "toggle", !.user = sessUser, !.carried = updOk,
                              !.result = r.ok, !.enabled = enabled]
     /\ UNCHANGED <<plantings, notifications, sessUser, sessPlantings, sessNotifs,
                    nextPid, nextNid, clock, otherSession, running>>

toggle_notifications ==
  \E enabled \in BOOLEAN : \E updOk \in BOOLEAN : \E scanOk \in BOOLEAN :
     ToggleNotifications(enabled, updOk, scanOk)

\* the email that profile finds for the user: the one of the users table
stored_email(us, username) ==
  IF ItemsOfUsername(us, username) = {} THEN ""
  ELSE us[CHOOSE k \in ItemsOfUsername(us, username) : TRUE].email

\* profile (POST with an email by a Cognito user): a changed email is written
\* with save_user_to_dynamodb, the email is subscribed to the topic and the
\* preference is set to True
ProfileUpdate(email, putOk, subscribeOk, updOk, scanOk) ==
  LET username == usernameOf(sessUser)
      changed == email # "" /\ email # stored_email(users, username)
      saved == save_user_to_dynamodb(users,
                  [user_id |-> sessUser, username |-> username, email |-> email,
                   notifications_enabled |-> TRUE], putOk)
      pref == IF subscribeOk
                THEN update_user_notification_preference(saved.users, username, TRUE,
                                                         updOk, scanOk).users
              ELSE saved.users
  IN /\ sessUser # ""
     /\ users' = IF changed THEN pref ELSE users
     /\ last' = [NoObs EXCEPT !.op = "profile", !.user = sessUser, !.carried = changed,
                              !.result = (changed /\ saved.ok)]
     /\ UNCHANGED <<plantings, notifications, sessUser, sessPlantings, sessNotifs,
                    nextPid, nextNid, clock, otherSession, running, toggled>>

profile ==
  \E email \in {"mail", "mail2"} : \E putOk \in BOOLEAN : \E subscribeOk \in BOOLEAN :
  \E updOk \in BOOLEAN : \E scanOk \in BOOLEAN :
     ProfileUpdate(email, putOk, subscribeOk, updOk, scanOk)

\* sync_user_to_dynamo (post_save of the Django user with this username):
\* save_user_to_dynamodb("django_<pk>", {username, email, name, country})
SyncUserToDynamo(k, putOk) ==
  LET saved == save_user_to_dynamodb(users,
                  [user_id |-> "django", username |-> users[k].username,
                   email |-> users[k].email, notifications_enabled |-> TRUE], putOk)
  IN /\ users' = saved.users
     /\ users' # users
     /\ last' = [NoObs EXCEPT !.op = "sync_user", !.user = users[k].username,
                              !.carried = TRUE, !.result = saved.ok]
     /\ UNCHANGED <<plantings, notifications, sessUser, sessPlantings, sessNotifs,
                    nextPid, nextNid, clock, otherSession, running, toggled>>

sync_user_to_dynamo ==
  \E k \in DOMAIN users : \E putOk \in BOOLEAN : SyncUserToDynamo(k, putOk)

\* ------------------------------------------------------------------------
\* get_notification_summaries as two steps of a request in flight: the load
\* of the notifications of the user, and the rest of the handler (the load
\* of the plantings and the loop that checks and saves the reminders)
\* ------------------------------------------------------------------------
SummariesLoadNotifications(r, q1, s1) ==
  /\ sessUser # ""
  /\ running[r].pc = "idle"
  /\ running' = [running EXCEPT ![r] =
        [pc |-> "loaded",
         in_app_notifications |->
            load_user_notifications(notifications, sessNotifs, sessUser, SummaryLimit,
                                    FALSE, TRUE, q1, s1)]]
  /\ last' = [NoObs EXCEPT !.op = "summaries_load", !.user = sessUser,
                           !.preloaded = running'[r].in_app_notifications]
  /\ UNCHANGED <<plantings, notifications, sessUser, sessPlantings, sessNotifs,
                 nextPid, nextNid, clock, users, otherSession, toggled>>

SummariesSaveReminders(r, pq, ps, q2, s2) ==
  LET user_id == sessUser
      in_app_notifications == running[r].in_app_notifications
      plantings_list == load_user_plantings(plantings, user_id, pq, ps)
      ems == summary_emissions(plantings_list, in_app_notifications)
  IN /\ user_id # ""
     /\ running[r].pc = "loaded"
     /\ nextNid + Len(ems) <= MaxNotifs + 1
     /\ \E putOks \in [1..Len(ems) -> BOOLEAN] :
          LET s == save_all(ems, Len(ems), notifications, sessNotifs, nextNid, clock,
                            user_id, putOks)
              reloaded == load_user_notifications(s.ntab, s.sess, user_id, SummaryLimit,
                                                  FALSE, TRUE, q2, s2)
          IN /\ notifications' = s.ntab
             /\ sessNotifs' = s.sess
             /\ nextNid' = s.nid
             /\ last' = [NoObs EXCEPT !.op = "summaries", !.user = user_id,
                                      !.carried = TRUE,
                                      !.durable = plantings_list,
                                      !.preloaded = in_app_notifications,
                                      !.stored = s.stored,
                                      !.loaded = reloaded]
     /\ running' = [running EXCEPT ![r] = [pc |-> "done", in_app_notifications |-> <<>>]]
     /\ UNCHANGED <<plantings, sessUser, sessPlantings, nextPid, clock, users, otherSession, toggled>>

summaries_load_notifications ==
  \E r \in 1..2 : \E q1 \in BOOLEAN : \E s1 \in BOOLEAN : SummariesLoadNotifications(r, q1, s1)

summaries_save_reminders ==
  \E r \in 1..2 : \E pq \in BOOLEAN : \E ps \in BOOLEAN :
  \E q2 \in BOOLEAN : \E s2 \in BOOLEAN :
     SummariesSaveReminders(r, pq, ps, q2, s2)

\* ------------------------------------------------------------------------
\* Specification
\* ------------------------------------------------------------------------
Next ==
  \/ Tick
  \/ migrate_plantings
  \/ Login
  \/ cognito_logout
  \/ index
  \/ save_planting
  \/ update_planting
  \/ delete_planting
  \/ get_notification_summaries
  \/ mark_all_notifications_read
  \/ lambda_handler
  \/ save_notification_session
  \/ other_browser
  \/ toggle_notifications
  \/ profile
  \/ sync_user_to_dynamo
  \/ summaries_load_notifications
  \/ summaries_save_reminders

Spec == Init /\ [][Next]_vars

\* ------------------------------------------------------------------------
\* index alone, over what the stores can hold when a request arrives
\* ------------------------------------------------------------------------
\* a planting as save_planting stored it for user u, and as the table holds it
\* after migrate_plantings has set its image_url
StoredPlanting(id, u, img) ==
  [new_planting(id, u, usernameOf(u), "Radishes", IsoStr(Today - 21))
     EXCEPT !.image_url = img]

\* the tables that hold at most one item per planting_id in 1..MaxPlantings
DurableTables ==
  {T \in SUBSET {StoredPlanting(id, u, img) :
                   id \in 1..MaxPlantings, u \in Users, img \in {"", "s3"}} :
     \A a \in T : \A b \in T : a.planting_id = b.planting_id => a = b}

\* the session lists: plantings as save_planting appended them, each
\* planting_id at most once (every planting_id is a fresh uuid4)
SessionLists ==
  {s \in UNION {[1..n -> {StoredPlanting(id, u, "") :
                            id \in 1..MaxPlantings, u \in Users}] :
                n \in 0..MaxPlantings} :
     \A i \in DOMAIN s : \A j \in DOMAIN s : s[i].planting_id = s[j].planting_id => i = j}

InitMerge ==
  /\ plantings \in DurableTables
  /\ notifications = {}
  /\ sessUser \in Users \cup {""}
  /\ sessPlantings \in SessionLists
  /\ sessNotifs = [u \in Users |-> <<>>]
  /\ nextPid = MaxPlantings + 1
  /\ nextNid = 1
  /\ clock = 0
  /\ users = <<>>
  /\ otherSession = NoSession
  /\ running = NoRequests
  /\ toggled = [u \in Users |-> "none"]
  /\ last = NoObs

NextMerge == index

SpecMerge == InitMerge /\ [][NextMerge]_vars


\* ------------------------------------------------------------------------
\* The digest alone, over what the users table can hold
\* ------------------------------------------------------------------------
\* the k-th item of the users table: written by the confirmation of the
\* sign-up (an email attribute when Cognito has one) and by the notification
\* toggle (notifications_enabled)
UserItems(k) ==
  {[user_id |-> <<"u1", "u2", "u3", "u4", "u5", "u6">>[k],
    username |-> <<"alice", "bob", "carol", "dave", "erin", "frank">>[k], email |-> e,
    notifications_enabled |-> b] : e \in {"", "mail"}, b \in BOOLEAN}

UserTables ==
  UNION {{us \in [1..n -> UNION {UserItems(k) : k \in 1..n}] :
            \A k \in 1..n : us[k] \in UserItems(k)} : n \in 0..MaxUsers}

InitDigest ==
  /\ plantings \in {{}, {StoredPlanting(1, "u1", "")}}
  /\ notifications = {}
  /\ sessUser = ""
  /\ sessPlantings = <<>>
  /\ sessNotifs = [u \in Users |-> <<>>]
  /\ nextPid = MaxPlantings + 1
  /\ nextNid = 1
  /\ clock = 0
  /\ users \in UserTables
  /\ otherSession = NoSession
  /\ running = NoRequests
  /\ toggled = [u \in Users |-> "none"]
  /\ last = NoObs

NextDigest == lambda_handler

SpecDigest == InitDigest /\ [][NextDigest]_vars

\* ------------------------------------------------------------------------
\* index over plantings of every age, and over items of the table that
\* save_planting did not write (no crop_name, no or a malformed planting_date)
\* ------------------------------------------------------------------------
\* a string that date.fromisoformat rejects
BadDate == [t |-> "bad", v |-> 0]

\* the planting dates that put the last task of Radishes (day 21) one day
\* back, on today, on the horizon of 7 days, and one day behind the horizon
ClassifyDates == {Today - 22, Today - 21, Today - 14, Today - 13}

ClassifyItems(id) ==
  LET base(d) == new_planting(id, "u1", usernameOf("u1"), "Radishes", IsoStr(d))
  IN {base(d) : d \in ClassifyDates}
     \cup {[base(Today - 21) EXCEPT !.crop_name = ""],
           [base(Today - 21) EXCEPT !.crop_name = "", !.plan = <<>>],
           [base(Today - 21) EXCEPT !.planting_date = NoDate],
           [base(Today - 21) EXCEPT !.planting_date = BadDate]}

ClassifyTables ==
  {T \in SUBSET UNION {ClassifyItems(id) : id \in 1..MaxPlantings} :
     \A a \in T : \A b \in T : a.planting_id = b.planting_id => a = b}

InitClassify ==
  /\ plantings \in ClassifyTables
  /\ notifications = {}
  /\ sessUser = "u1"
  /\ sessPlantings = <<>>
  /\ sessNotifs = [u \in Users |-> <<>>]
  /\ nextPid = MaxPlantings + 1
  /\ nextNid = 1
  /\ clock = 0
  /\ users = <<>>
  /\ otherSession = NoSession
  /\ running = NoRequests
  /\ toggled = [u \in Users |-> "none"]
  /\ last = NoObs

NextClassify == index

SpecClassify == InitClassify /\ [][NextClassify]_vars

\* ------------------------------------------------------------------------
\* The plan generators over crops and planting dates
\* ------------------------------------------------------------------------
PlanDates == {Today - 60, Today - 28, Today - 21, Today - 7, Today}

\* plantings stored without a plan (save_planting stores an empty plan when
\* the calculation raises)
PlanItems(id) ==
  {[new_planting(id, "u1", usernameOf("u1"), c, IsoStr(d)) EXCEPT !.plan = <<>>] :
     c \in {"Radishes", "Carrots"}, d \in PlanDates}

PlanTables ==
  {T \in SUBSET UNION {PlanItems(id) : id \in 1..MaxPlantings} :
     \A a \in T : \A b \in T : a.planting_id = b.planting_id => a = b}

InitPlan ==
  /\ plantings \in PlanTables
  /\ notifications = {}
  /\ sessUser = ""
  /\ sessPlantings = <<>>
  /\ sessNotifs = [u \in Users |-> <<>>]
  /\ nextPid = MaxPlantings + 1
  /\ nextNid = 1
  /\ clock = 0
  /\ users = <<>>
  /\ otherSession = NoSession
  /\ running = NoRequests
  /\ toggled = [u \in Users |-> "none"]
  /\ last = NoObs

NextPlan == generate_plan

SpecPlan == InitPlan /\ [][NextPlan]_vars

\* ------------------------------------------------------------------------
\* The planting lookup over tables that also hold items stored under a
\* username only (the items that manage.py migrate_plantings looks for)
\* ------------------------------------------------------------------------
LoadItems(id) ==
  {StoredPlanting(id, u, "") : u \in Users}
  \cup {[StoredPlanting(id, u, "") EXCEPT !.user_id = ""] : u \in Users}

LoadTables ==
  {T \in SUBSET UNION {LoadItems(id) : id \in 1..MaxPlantings} :
     \A a \in T : \A b \in T : a.planting_id = b.planting_id => a = b}

InitLoad ==
  /\ plantings \in LoadTables
  /\ notifications = {}
  /\ sessUser \in Users
  /\ sessPlantings = <<>>
  /\ sessNotifs = [u \in Users |-> <<>>]
  /\ nextPid = MaxPlantings + 1
  /\ nextNid = 1
  /\ clock = 0
  /\ users = <<>>
  /\ otherSession = NoSession
  /\ running = NoRequests
  /\ toggled = [u \in Users |-> "none"]
  /\ last = NoObs

NextLoad ==
  \/ load_user_plantings_both
  \/ index

SpecLoad == InitLoad /\ [][NextLoad]_vars

\* ------------------------------------------------------------------------
\* The requests of one browser session after login
\* ------------------------------------------------------------------------
\* the state after cognito_callback in a new browser session
InitSession ==
  /\ plantings = {}
  /\ notifications = {}
  /\ sessUser \in Users
  /\ sessPlantings = <<>>
  /\ sessNotifs = [u \in Users |-> <<>>]
  /\ nextPid = 1
  /\ nextNid = 1
  /\ clock = 0
  /\ users = <<>>
  /\ otherSession = NoSession
  /\ running = NoRequests
  /\ toggled = [u \in Users |-> "none"]
  /\ last = NoObs

\* the planting actions of the user
NextActions ==
  \/ save_planting
  \/ update_planting
  \/ delete_planting

SpecActions == InitSession /\ [][NextActions]_vars

\* plantings are added and the notification summaries are requested
NextReminders ==
  \/ save_planting
  \/ get_notification_summaries

SpecReminders == InitSession /\ [][NextReminders]_vars

\* plantings are added and the notifications are marked as read
NextMarkAll ==
  \/ save_planting
  \/ mark_all_notifications_read

SpecMarkAll == InitSession /\ [][NextMarkAll]_vars

\* notifications of the user are saved while the notifications table cannot
\* be written, and time passes
NextSessionSaves ==
  \/ save_notification_session
  \/ Tick

SpecSessionSaves == InitSession /\ [][NextSessionSaves]_vars

\* users log in and out of one browser session, add plantings and open index
NextOwnership ==
  \/ Login
  \/ cognito_logout
  \/ save_planting
  \/ index

SpecOwnership == Init /\ [][NextOwnership]_vars

\* ------------------------------------------------------------------------
\* One user logged in from two browsers
\* ------------------------------------------------------------------------
\* the state after cognito_callback in two new browser sessions of a user
InitBrowsers ==
  /\ plantings = {}
  /\ notifications = {}
  /\ sessUser = "u1"
  /\ sessPlantings = <<>>
  /\ sessNotifs = [u \in Users |-> <<>>]
  /\ nextPid = 1
  /\ nextNid = 1
  /\ clock = 0
  /\ users = <<>>
  /\ otherSession = [NoSession EXCEPT !.sessUser = "u1"]
  /\ running = NoRequests
  /\ toggled = [u \in Users |-> "none"]
  /\ last = NoObs

\* save_planting and delete_planting while the notifications table is
\* writable; the plantings table may fail
save_planting_notified ==
  \E putOk \in BOOLEAN : SavePlantingRequest("Radishes", IsoStr(Today - 21), putOk, TRUE)

delete_planting_notified ==
  \E i \in 0..(MaxPlantings - 1) : \E queryOk \in BOOLEAN : \E delOk \in BOOLEAN :
     DeletePlantingRequest(i, queryOk, queryOk, delOk, TRUE)

\* plantings are added, deleted and viewed from both browsers
NextBrowsers ==
  \/ save_planting_notified
  \/ delete_planting_notified
  \/ index
  \/ other_browser

SpecBrowsers == InitBrowsers /\ [][NextBrowsers]_vars

\* ------------------------------------------------------------------------
\* A user adds plantings, views them and edits them
\* ------------------------------------------------------------------------
NextEdit ==
  \/ save_planting_notified
  \/ index
  \/ update_planting

SpecEdit == InitSession /\ [][NextEdit]_vars

\* ------------------------------------------------------------------------
\* The notification preference: users switch the digest off and on, edit
\* their profile, are synced and log in, and the digest runs
\* ------------------------------------------------------------------------
\* the users table after the confirmation of two sign-ups
InitPreference ==
  /\ plantings = {}
  /\ notifications = {}
  /\ sessUser \in Users
  /\ sessPlantings = <<>>
  /\ sessNotifs = [u \in Users |-> <<>>]
  /\ nextPid = 1
  /\ nextNid = 1
  /\ clock = 0
  /\ users = << [user_id |-> "u1", username |-> "alice", email |-> "mail",
                 notifications_enabled |-> TRUE],
                [user_id |-> "u2", username |-> "bob", email |-> "mail",
                 notifications_enabled |-> TRUE] >>
  /\ otherSession = NoSession
  /\ running = NoRequests
  /\ toggled = [u \in Users |-> "none"]
  /\ last = NoObs

NextPreference ==
  \/ toggle_notifications
  \/ profile
  \/ sync_user_to_dynamo
  \/ Login
  \/ lambda_handler

SpecPreference == InitPreference /\ [][NextPreference]_vars

\* ------------------------------------------------------------------------
\* Two get_notification_summaries requests of one user at the same time
\* ------------------------------------------------------------------------
\* the user has one planting of Radishes whose last task is due today, or
\* that one and a planting of Carrots
InitConcurrent ==
  /\ plantings \in {{StoredPlanting(1, "u1", "")},
                    {StoredPlanting(1, "u1", ""),
                     new_planting(2, "u1", usernameOf("u1"), "Carrots", IsoStr(Today - 21))}}
  /\ notifications = {}
  /\ sessUser = "u1"
  /\ sessPlantings = <<>>
  /\ sessNotifs = [u \in Users |-> <<>>]
  /\ nextPid = MaxPlantings + 1
  /\ nextNid = 1
  /\ clock = 0
  /\ users = <<>>
  /\ otherSession = NoSession
  /\ running = NoRequests
  /\ toggled = [u \in Users |-> "none"]
  /\ last = NoObs

NextConcurrent ==
  \/ summaries_load_notifications
  \/ summaries_save_reminders

SpecConcurrent == InitConcurrent /\ [][NextConcurrent]_vars

\* ------------------------------------------------------------------------
\* index over plantings whose crop name has no profile in data.json
\* (save_planting stores the submitted name when normalize_crop_name finds
\* no match)
\* ------------------------------------------------------------------------
CropItems(id) ==
  {new_planting(id, "u1", usernameOf("u1"), c, IsoStr(d)) :
     c \in {"Radishes", "Dragonfruit"}, d \in ClassifyDates}

CropTables ==
  {T \in SUBSET UNION {CropItems(id) : id \in 1..MaxPlantings} :
     \A a \in T : \A b \in T : a.planting_id = b.planting_id => a = b}

InitCrops ==
  /\ plantings \in CropTables
  /\ notifications = {}
  /\ sessUser = "u1"
  /\ sessPlantings = <<>>
  /\ sessNotifs = [u \in Users |-> <<>>]
  /\ nextPid = MaxPlantings + 1
  /\ nextNid = 1
  /\ clock = 0
  /\ users = <<>>
  /\ otherSession = NoSession
  /\ running = NoRequests
  /\ toggled = [u \in Users |-> "none"]
  /\ last = NoObs

NextCrops == index

SpecCrops == InitCrops /\ [][NextCrops]_vars

\* ------------------------------------------------------------------------
\* Properties of index (SpecMerge)
\* ------------------------------------------------------------------------
MergedIds(id) == {k \in DOMAIN last.merged : last.merged[k].planting_id = id}

\* C1: the merged planting list that index builds for an identified user
\* never contains two entries with the same planting_id
C1_MergedIdsUnique ==
  (last.op = "index" /\ last.user # "") =>
     \A i \in DOMAIN last.merged : \A j \in DOMAIN last.merged :
        last.merged[i].planting_id = last.merged[j].planting_id => i = j

\* index has merged a durable result with a session list that holds the same
\* planting_id and one more planting of the user
C1_Witness ==
  /\ last.op = "index"
  /\ last.user # ""
  /\ Len(last.durable) = 1
  /\ Len(last.merged) = 2
  /\ \E i \in DOMAIN last.session :
        last.session[i].planting_id = last.durable[1].planting_id

\* C2: a planting_id present in the durable results and in the session cache
\* is in the merged list exactly once and as the durable copy; with durable
\* results {p1} and a session cache of a stale p1 and a new p2 the merged
\* list is the durable p1 followed by the session p2
C2_DurablePrecedence ==
  (last.op = "index" /\ last.user # "") =>
     /\ \A d \in DOMAIN last.durable :
          (\E i \in DOMAIN last.session :
              last.session[i].planting_id = last.durable[d].planting_id)
          => /\ Cardinality(MergedIds(last.durable[d].planting_id)) = 1
             /\ \A k \in MergedIds(last.durable[d].planting_id) :
                   last.merged[k] = last.durable[d]
     /\ ( /\ Len(last.durable) = 1
          /\ Len(last.session) = 2
          /\ last.session[1].planting_id = last.durable[1].planting_id
          /\ last.session[2].planting_id # last.durable[1].planting_id
          /\ last.session[2].user_id = last.user )
        => last.merged = <<last.durable[1], last.session[2]>>

\* durable results {p1 with its image_url set}, session cache <<p1 as it was
\* saved, p2>>: the merged list is the durable p1, then p2
C2_Witness ==
  /\ last.op = "index"
  /\ last.user = "u1"
  /\ last.durable = <<StoredPlanting(1, "u1", "s3")>>
  /\ last.session = <<StoredPlanting(1, "u1", ""), StoredPlanting(2, "u1", "")>>
  /\ last.merged = <<StoredPlanting(1, "u1", "s3"), StoredPlanting(2, "u1", "")>>

\* C3: when the durable planting query fails, the view is the session cache
\* filtered by the user and it is flagged as degraded
C3_FailedQueryFlagged ==
  (last.op = "index" /\ last.loadFailed) =>
     /\ last.merged = filtered_session(last.session, last.user, usernameOf(last.user))
     /\ last.degraded

Range(q) == {q[i] : i \in DOMAIN q}

IsReminder(n) == n.notification_type \in {"step_reminder", "harvest_reminder"}

\* the dedupe key of a reminder, the user aside
SameReminderKey(a, b) ==
  /\ a.notification_type = b.notification_type
  /\ a.crop_name = b.crop_name
  /\ a.due_date = b.due_date
  /\ a.task = b.task
  /\ a.harvest_date = b.harvest_date

\* C5: within one run of get_notification_summaries a step_reminder with the
\* same (crop_name, due_date, task) is stored at most once, also when two
\* plantings of the user have the same crop and the same due dates
C5_OneStepReminderPerKeyAndRun ==
  last.op = "summaries" =>
     \A i \in DOMAIN last.stored : \A j \in DOMAIN last.stored :
        ( /\ last.stored[i].notification_type = "step_reminder"
          /\ SameReminderKey(last.stored[i], last.stored[j]) ) => i = j

\* C6: a run of get_notification_summaries stores no reminder whose key a
\* notification of the user already has, in the durable table or in the
\* session list
C6_NoReminderTwice ==
  [][last'.op = "summaries" =>
       \A k \in DOMAIN last'.stored :
          ~ \E m \in {x \in notifications : x.user_id = last'.user}
                     \cup Range(sessNotifs[last'.user]) :
               IsReminder(m) /\ SameReminderKey(m, last'.stored[k])]_vars

\* C7: save_notification returns an id also when the durable write fails,
\* and the notification is then in the session list of that user
C7_SessionFallback ==
  ( /\ last.op \in {"save_planting", "update_planting", "delete_planting"}
    /\ last.carried
    /\ ~last.notifPutOk ) =>
     /\ last.notifId # NoId
     /\ \E i \in DOMAIN sessNotifs[last.user] :
           /\ sessNotifs[last.user][i].notification_id = last.notifId
           /\ sessNotifs[last.user][i].user_id = last.user
     /\ \A n \in notifications : n.notification_id # last.notifId

\* the durable write of a plant_deleted notification has failed and the
\* session list of the user holds it, before an older one
C7_Witness ==
  /\ last.op = "delete_planting"
  /\ last.carried
  /\ ~last.notifPutOk
  /\ Len(sessNotifs[last.user]) = 2
  /\ sessNotifs[last.user][1].notification_id = last.notifId
  /\ sessNotifs[last.user][1].notification_type = "plant_deleted"

\* C8: a notification that is in the session list of the user is among the
\* notifications that a later load_user_notifications of that session returns
C8_SessionNotificationLoaded ==
  last.op = "summaries" =>
     \A i \in DOMAIN sessNotifs[last.user] :
        sessNotifs[last.user][i] \in Range(last.loaded)

TypeOfAction(op) ==
  IF op = "save_planting" THEN "plant_added"
  ELSE IF op = "update_planting" THEN "plant_edited"
  ELSE "plant_deleted"

\* C9: a save_planting, update_planting or delete_planting that is carried
\* out adds exactly one notification, of the type of the action and of the
\* user, whatever notifications exist already
C9_OneNotificationPerAction ==
  [][( /\ last'.op \in {"save_planting", "update_planting", "delete_planting"}
       /\ last'.carried ) =>
       LET u == last'.user
           added == (notifications' \ notifications)
                    \cup (Range(sessNotifs'[u]) \ Range(sessNotifs[u]))
       IN /\ notifications \subseteq notifications'
          /\ Range(sessNotifs[u]) \subseteq Range(sessNotifs'[u])
          /\ \A v \in Users \ {u} : sessNotifs'[v] = sessNotifs[v]
          /\ Cardinality(added) = 1
          /\ Cardinality(notifications') + Len(sessNotifs'[u])
               = Cardinality(notifications) + Len(sessNotifs[u]) + 1
          /\ \A n \in added : /\ n.notification_type = TypeOfAction(last'.op)
                              /\ n.user_id = u
                              /\ n.notification_id = last'.notifId]_vars

\* an update has been carried out and the user has two plant_edited
\* notifications for the same planting and crop
C9_Witness ==
  /\ last.op = "update_planting"
  /\ last.carried
  /\ \E a \in notifications \cup Range(sessNotifs[last.user]) :
     \E b \in notifications \cup Range(sessNotifs[last.user]) :
        /\ a.notification_id # b.notification_id
        /\ b.notification_id = last.notifId
        /\ a.user_id = b.user_id
        /\ a.notification_type = "plant_edited"
        /\ b.notification_type = "plant_edited"
        /\ a.planting_id = b.planting_id
        /\ a.crop_name = b.crop_name

\* C10: when the store answers the load, mark_all_notifications_read attempts
\* mark_notification_read on every unread notification of the user, and it
\* returns True exactly when one of the updates succeeded
C10_MarkAllAttemptsEveryUnread ==
  (last.op = "mark_all" /\ last.carried) =>
     /\ last.attempted = last.unread
     /\ last.result <=> (last.succeeded # {})


\* ------------------------------------------------------------------------
\* Properties of the digest (SpecDigest)
\* ------------------------------------------------------------------------
PublishCalls == {"published", "publish_failed", "publish_raised"}

EventsOf(k) == {j \in DOMAIN last.events : last.events[j].i = k}

Ineligible(k) == users[k].email = "" \/ ~users[k].notifications_enabled

\* C11: the digest never publishes for a user without email or with
\* notifications_enabled false; each such user that the run reaches is
\* skipped, and a completed run counts all of them in skipped and none of
\* them in failed
C11_IneligibleSkipped ==
  last.op = "digest" =>
     /\ \A j \in DOMAIN last.events :
           Ineligible(last.events[j].i) => last.events[j].what = "skipped"
     /\ last.status = "ok" =>
           /\ last.skipped = Cardinality({k \in DOMAIN users : Ineligible(k)})
           /\ \A k \in DOMAIN users : Ineligible(k) => EventsOf(k) # {}

\* a completed run over a user without email, a user who has disabled the
\* notifications, and a user who got the digest
C11_Witness ==
  /\ last.op = "digest"
  /\ last.status = "ok"
  /\ last.sent > 0
  /\ \E k \in DOMAIN users : users[k].email = "" /\ users[k].notifications_enabled
  /\ \E k \in DOMAIN users : users[k].email # "" /\ ~users[k].notifications_enabled

\* C12: a failure of the publish step for one user (an error of the publish
\* call or a missing topic configuration) is counted in failed for that user
\* only; every remaining user is processed and the counts are returned
C12_PublishFailureContained ==
  (last.op = "digest" /\ last.status # "error") =>
     /\ last.status = "ok"
     /\ \A k \in DOMAIN users : EventsOf(k) # {}
     /\ last.failed = Cardinality({j \in DOMAIN last.events :
                                     last.events[j].what = "publish_failed"})

\* C13: the counts of a completed run: total is the number of scanned users
\* and every user is counted in exactly one of sent, skipped and failed
C13_CountsPartition ==
  (last.op = "digest" /\ last.status = "ok") =>
     /\ last.total = Len(users)
     /\ last.sent + last.skipped + last.failed = last.total
     /\ last.sent = Cardinality({k \in DOMAIN users : \E j \in EventsOf(k) :
                                   last.events[j].what = "published"})
     /\ last.failed = Cardinality({k \in DOMAIN users : \E j \in EventsOf(k) :
                                     last.events[j].what = "publish_failed"})
     /\ last.skipped = Cardinality({k \in DOMAIN users : \E j \in EventsOf(k) :
                                      last.events[j].what = "skipped"})

\* a completed run with a sent, a skipped and a failed user
C13_Witness ==
  /\ last.op = "digest"
  /\ last.status = "ok"
  /\ last.sent > 0
  /\ last.skipped > 0
  /\ last.failed > 0

\* the publish calls of the run after the last pause before position j
PublishesSincePause(j) ==
  {m \in 1..j : /\ last.events[m].what \in PublishCalls
                /\ \A q \in m..j : last.events[q].what # "pause"}

\* C14: the run pauses after every BATCH_SIZE-th user of the scan, whatever
\* the outcome of that user, and never makes more than BATCH_SIZE publish
\* calls without a pause between them
C14_PauseEveryBatch ==
  (last.op = "digest" /\ last.status = "ok") =>
     /\ \A k \in DOMAIN users :
           k % BATCH_SIZE = 0 =>
              \E j \in EventsOf(k) : last.events[j].what = "pause"
     /\ \A j \in DOMAIN last.events :
           Cardinality(PublishesSincePause(j)) <= BATCH_SIZE


\* ------------------------------------------------------------------------
\* Properties of the classification of index (SpecClassify)
\* ------------------------------------------------------------------------
Classified == Range(last.ongoing) \cup Range(last.upcoming) \cup Range(last.past)

BucketsOf(i) ==
  {b \in {"ongoing", "upcoming", "past"} :
     \E e \in Range(IF b = "ongoing" THEN last.ongoing
                    ELSE IF b = "upcoming" THEN last.upcoming ELSE last.past) : e.id = i}

\* the due date of the harvest task of a shown plan: the last task that has a date
HarvestDue(plan) ==
  LET dated == {k \in DOMAIN plan : plan[k].due_date.t = "date"}
  IN IF dated = {} THEN NoDate
     ELSE plan[CHOOSE k \in dated : \A m \in dated : m <= k].due_date

Parseable(p) == p.planting_date.t \in {"str", "date"}

\* C20: a planting whose planting_date is missing or cannot be parsed is
\* left out alone: every other planting of the merged list is planned and
\* classified
C20_BadDateSkipsOnlyThatPlanting ==
  last.op = "index" =>
     \A k \in DOMAIN last.merged :
        IF Parseable(last.merged[k])
          THEN /\ Cardinality(BucketsOf(k - 1)) = 1
               /\ \A e \in Classified :
                     e.id = k - 1 =>
                        (last.merged[k].crop_name # "" => e.p.plan # <<>>)
        ELSE BucketsOf(k - 1) = {}

\* the merged list starts with a planting without a usable planting_date and
\* the planting after it has been planned and classified
C20_Witness ==
  /\ last.op = "index"
  /\ Len(last.merged) = 2
  /\ ~Parseable(last.merged[1])
  /\ Parseable(last.merged[2])
  /\ \E e \in Classified : e.id = 1 /\ e.p.plan # <<>>


\* ------------------------------------------------------------------------
\* Properties of the plan generators (SpecPlan)
\* ------------------------------------------------------------------------
HarvestTasks(plan) == {k \in DOMAIN plan : is_harvest(plan[k])}

\* C16: a generated plan has non-decreasing due dates and exactly one task
\* with is_harvest = true, due on planting_date + harvest_window.start
C16_PlanOrderedWithOneHarvest ==
  last.op = "generate" =>
     /\ \A i \in DOMAIN last.plan : \A j \in DOMAIN last.plan :
           i <= j => last.plan[i].due_date.v <= last.plan[j].due_date.v
     /\ Cardinality(HarvestTasks(last.plan)) = 1
     /\ \A k \in HarvestTasks(last.plan) :
           last.plan[k].due_date.v =
              last.planting_date.v + harvest_window[last.crop_name].start


\* the plantings as they are without their stored plan
WithoutPlan(ps) == [k \in DOMAIN ps |-> [ps[k] EXCEPT !.plan = <<>>]]

\* C17: the tasks that a consumer of a plan uses are derived from the crop
\* knowledge base and the planting date at the time of use, never taken from
\* the plan stored with the planting; here for the digest: the tasks and
\* harvests of every message are those of the plans generated for the
\* plantings read
C17_PlanNeverFromStorage ==
  last.op = "digest" =>
     \A j \in DOMAIN last.events :
        last.events[j].what \in PublishCalls =>
           LET fresh == get_upcoming_tasks_and_harvests(
                           WithoutPlan(last.events[j].user_plantings))
           IN /\ last.events[j].upcoming_tasks = fresh.upcoming_tasks
              /\ last.events[j].upcoming_harvests = fresh.upcoming_harvests


\* ------------------------------------------------------------------------
\* Properties of the planting lookup (SpecLoad)
\* ------------------------------------------------------------------------
\* C18: load_user_plantings returns the same set of planting_ids when the
\* index query answers as when the scan with filter answers, also when the
\* plantings of the user span several result pages
C18_QueryEqualsScan ==
  last.op = "load" => IdsOf(last.viaQuery) = IdsOf(last.viaScan)

\* the items of the table stored under the username of the user alone
UsernameOnly(u) == {r \in plantings : r.user_id = "" /\ r.username = usernameOf(u)}

\* C19: when the lookup by user_id yields nothing, the lookup is repeated
\* with the username, so that a planting stored under the username of the
\* user alone is returned to index
C19_UsernameFallback ==
  ( /\ last.op = "index"
    /\ last.user # ""
    /\ ~last.loadFailed
    /\ \A r \in plantings : r.user_id # last.user ) =>
     \A r \in UsernameOnly(last.user) : r \in Range(last.durable)


\* ------------------------------------------------------------------------
\* Properties of the session list of notifications (SpecSessionSaves)
\* ------------------------------------------------------------------------
\* the notifications saved so far to the session list of the user of the session
SavedToSession == 1..(nextNid - 1)

\* the entries of the list that were saved after the notification nid
NewerInList(slist, nid) == {k \in DOMAIN slist : slist[k].notification_id > nid}

\* C21: after any sequence of notification saves to the session, the list of
\* the user holds at most 100 notifications, newest first, and a notification
\* is missing from it only when 100 notifications saved after it are in it
C21_SessionListBounded ==
  LET slist == sessNotifs[sessUser]
  IN /\ Len(slist) <= 100
     /\ \A i \in DOMAIN slist : \A j \in DOMAIN slist :
           i < j => /\ slist[i].notification_id > slist[j].notification_id
                    /\ slist[i].created_at >= slist[j].created_at
     /\ \A nid \in SavedToSession :
           \/ \E k \in DOMAIN slist : slist[k].notification_id = nid
           \/ Cardinality(NewerInList(slist, nid)) >= 100

\* more than 100 notifications were saved and the oldest ones are gone
C21_Witness ==
  /\ last.op = "session_save"
  /\ nextNid - 1 > 100
  /\ Len(sessNotifs[sessUser]) = 100
  /\ \A k \in DOMAIN sessNotifs[sessUser] : sessNotifs[sessUser][k].notification_id # 1

\* ------------------------------------------------------------------------
\* Properties of the plantings across logins (SpecOwnership)
\* ------------------------------------------------------------------------
\* C22: no request changes the user_id of a planting record that the durable
\* store holds
C22_OwnerNeverChanges ==
  [][\A r \in plantings : \A q \in plantings' :
        r.planting_id = q.planting_id => r.user_id = q.user_id]_vars

\* ------------------------------------------------------------------------
\* Properties of the planting requests from two browsers (SpecBrowsers)
\* ------------------------------------------------------------------------
PlantingIds == {r.planting_id : r \in plantings}

\* the session of the browser of the request holds a planting with this id
InSessionCache(id) == \E k \in DOMAIN sessPlantings : sessPlantings[k].planting_id = id

Displayed == Range(last.ongoing) \cup Range(last.upcoming) \cup Range(last.past)

\* C24: delete_planting(i), requested from the view that index has just
\* built, removes the planting that the view shows with id i
C24_DeleteHitsDisplayed ==
  [][\A e \in Displayed :
        (last.op = "index" /\ last'.op = "delete_planting" /\ last'.url_id = e.id)
           => last'.popped = e.p.planting_id]_vars

\* ------------------------------------------------------------------------
\* Properties of update_planting (SpecEdit)
\* ------------------------------------------------------------------------
\* C25: update_planting(i) with a crop_name, requested from the view that
\* index has just built and carried out by the store, sets the crop_name of
\* the durable record of the planting that the view shows with id i, leaves
\* every other record as it is and adds no record to the plantings table
C25_UpdateEditsDisplayed ==
  [][\A e \in Displayed :
        (/\ last.op = "index"
         /\ last'.op = "update_planting" /\ last'.carried
         /\ last'.url_id = e.id
         /\ e.p.planting_id \in PlantingIds)
        => /\ \A r \in plantings' : r.planting_id \in PlantingIds
           /\ \A r \in plantings' :
                 IF r.planting_id = e.p.planting_id THEN r.crop_name = last'.crop_name
                 ELSE r \in plantings]_vars

\* the plantings that the view of the request shows
DisplayedIds == {e.p.planting_id : e \in Displayed}

\* C26: the index request that follows a delete_planting, with the store
\* reachable, lists every planting that the store or the session of the user
\* held before the delete, except the one that delete_planting removed
C26_DeleteLeavesOthers ==
  [][(/\ last.op = "delete_planting" /\ last.carried
      /\ last'.op = "index" /\ last'.user = last.user /\ ~last'.loadFailed)
     => \A id \in (IdsOf(last.durable) \cup IdsOf(last.session)) \ {last.popped} :
           id \in DisplayedIds']_vars

\* ------------------------------------------------------------------------
\* Properties of the notification preference (SpecPreference)
\* ------------------------------------------------------------------------
\* the run of the digest has called sns.publish for the user
PublishedFor(u) ==
  \E j \in DOMAIN last.events :
     /\ last.events[j].what \in PublishCalls
     /\ users[last.events[j].i].username = usernameOf(u)

\* C27: a run of the digest publishes for no user whose last successful
\* toggle_notifications was one with enabled = false
C27_OptOutRespected ==
  last.op = "digest" => \A u \in Users : toggled[u] = "off" => ~PublishedFor(u)

\* C28: after the login migration of persist_cognito_user every planting that
\* the session held is in the durable store or still in the session
C28_MigrationKeepsPlantings ==
  [][last'.op = "login" =>
       \A k \in DOMAIN sessPlantings :
          \/ sessPlantings[k].planting_id \in PlantingIds'
          \/ InSessionCache(sessPlantings[k].planting_id)']_vars

\* ------------------------------------------------------------------------
\* Properties of concurrent get_notification_summaries requests (SpecConcurrent)
\* ------------------------------------------------------------------------
\* the notifications stored for the user, in the table and in the session
StoredFor(u) == {n \in notifications : n.user_id = u} \cup Range(sessNotifs[u])

\* C29: the two requests store between them at most one step_reminder per
\* (crop_name, due_date, task)
C29_OneReminderAcrossRequests ==
  \A a \in StoredFor(sessUser) : \A b \in StoredFor(sessUser) :
     (a.notification_type = "step_reminder" /\ SameReminderKey(a, b))
        => a.notification_id = b.notification_id

\* ------------------------------------------------------------------------
\* Properties of index over unknown crops (SpecCrops)
\* ------------------------------------------------------------------------
\* C30: every planting of the merged list that has a parseable planting_date
\* is in exactly one of the three lists of index, and a planting whose crop
\* name matches no crop profile is in the Ongoing list
C30_EveryPlantingListed ==
  last.op = "index" =>
     \A k \in DOMAIN last.merged :
        Parseable(last.merged[k]) =>
           /\ Cardinality(BucketsOf(k - 1)) = 1
           /\ normalize_crop_name(last.merged[k].crop_name) \notin DOMAIN plant_data
                 => BucketsOf(k - 1) = {"ongoing"}
====
